---------------------------- MODULE Spec2Model ----------------------------
(***************************************************************************)
(* Content-extraction cascade of drive-airtable (src/app.py):              *)
(*   fix_hebrew_text_direction, extract_text_from_pdf and                  *)
(*   process_with_vision_api.                                              *)
(*                                                                         *)
(* A Python str is a sequence of Unicode code points (naturals).           *)
(* A Python Optional is None == <<>> or Some(x) == <<x>>.                  *)
(***************************************************************************)
EXTENDS Integers, Sequences, FiniteSets, TLC

(***************************************************************************)
(* Bounds of the model.                                                    *)
(***************************************************************************)
\* longest provider text enumerated over Alphabet
MaxLen == 3
\* longest page text enumerated over Alphabet
MaxPageLen == 1
\* most pages a document has
MaxPages == 2
\* most objects / labels one provider response lists
MaxItems == 6
\* most Drive renames one run of the interactive tool issues
MaxRenames == 2
\* most entries one CSV or JSON list holds
MaxEntries == 3

(***************************************************************************)
(* Program constants.                                                      *)
(***************************************************************************)
\* re.compile(r'[\u0590-\u05FF]'): the Hebrew block U+0590..U+05FF
HebrewLo == 1424
HebrewHi == 1535
\* objects[:5], labels[:5]
TopN == 5

None == <<>>
Some(x) == <<x>>

\* the reference substrings of fix_hebrew_text_direction:
\* four words written in Hebrew letters, as they come out mirrored
MirroredPatterns ==
    { <<1498, 1502, 1505>>,
      <<1498, 1488, 1512, 1488, 1514>>,
      <<1512, 1493, 1489, 1505, 1500>>,
      <<1497, 1511, 32, 1497, 1511>> }

\* "Objects detected: "
ObjectsPrefix ==
    <<79, 98, 106, 101, 99, 116, 115, 32, 100, 101, 116, 101, 99, 116, 101,
      100, 58, 32>>
\* "Image contains: "
LabelsPrefix ==
    <<73, 109, 97, 103, 101, 32, 99, 111, 110, 116, 97, 105, 110, 115, 58, 32>>
\* "No text or recognizable content found in "
NoContentPrefix ==
    <<78, 111, 32, 116, 101, 120, 116, 32, 111, 114, 32, 114, 101, 99, 111,
      103, 110, 105, 122, 97, 98, 108, 101, 32, 99, 111, 110, 116, 101, 110,
      116, 32, 102, 111, 117, 110, 100, 32, 105, 110, 32>>
\* ", "
CommaSpace == <<44, 32>>
\* ".pdf"
PdfSuffix == <<46, 112, 100, 102>>

(***************************************************************************)
(* Python str operations, computed on code points.                         *)
(***************************************************************************)
\* str.isspace() of one code point (the whitespace str.strip() removes)
IsSpace(c) == c \in {9, 10, 11, 12, 13, 28, 29, 30, 31, 32, 133, 160}

\* str.strip(): what lies between the first and the last non-space
strip(s) ==
    LET kept == {i \in DOMAIN s : ~IsSpace(s[i])}
    IN  IF kept = {} THEN <<>>
        ELSE SubSeq(s, CHOOSE i \in kept : \A j \in kept : i <= j,
                       CHOOSE i \in kept : \A j \in kept : j <= i)

\* str.split('\n'): the pieces between consecutive newlines
split(s) ==
    LET newlines == {i \in DOMAIN s : s[i] = 10}
        \* position of the k-th newline; 0 before the text, Len(s) + 1 after
        At(k) == IF k = 0 THEN 0
                 ELSE IF k > Cardinality(newlines) THEN Len(s) + 1
                 ELSE CHOOSE p \in newlines :
                          Cardinality({q \in newlines : q < p}) = k - 1
    IN  [k \in 1..(Cardinality(newlines) + 1) |->
            SubSeq(s, At(k - 1) + 1, At(k) - 1)]

\* parts[k] sep parts[k + 1] sep ... to the last part
RECURSIVE JoinFrom(_, _, _)
JoinFrom(sep, parts, k) ==
    IF k > Len(parts) THEN <<>>
    ELSE IF k = Len(parts) THEN parts[k]
    ELSE parts[k] \o sep \o JoinFrom(sep, parts, k + 1)

\* sep.join(parts)
join(sep, parts) == JoinFrom(sep, parts, 1)

\* the words of s (separated by single spaces) in the opposite order
RECURSIVE ReverseWordOrder(_)
ReverseWordOrder(s) ==
    IF \A i \in DOMAIN s : s[i] # 32 THEN s
    ELSE LET k == CHOOSE i \in DOMAIN s :
                      s[i] = 32 /\ \A j \in 1..(i - 1) : s[j] # 32
         IN  ReverseWordOrder(SubSeq(s, k + 1, Len(s)))
                 \o <<32>> \o SubSeq(s, 1, k - 1)

\* s[::-1]
Reverse(s) == [i \in 1..Len(s) |-> s[Len(s) + 1 - i]]

\* pattern in line
Contains(pattern, line) ==
    \E i \in 1..(Len(line) - Len(pattern) + 1) :
        SubSeq(line, i, i + Len(pattern) - 1) = pattern

\* hebrew_pattern.search(s)
HasHebrew(s) == \E i \in DOMAIN s : s[i] \in HebrewLo..HebrewHi

\* str.lower() on the ASCII letters
Lower(s) == [i \in 1..Len(s) |-> IF s[i] \in 65..90 THEN s[i] + 32 ELSE s[i]]

\* s.endswith(suffix)
EndsWith(s, suffix) ==
    /\ Len(s) >= Len(suffix)
    /\ SubSeq(s, Len(s) - Len(suffix) + 1, Len(s)) = suffix

\* seq[:n]
Take(seq, n) == SubSeq(seq, 1, IF Len(seq) < n THEN Len(seq) ELSE n)

\* not x, for an Optional str: None and "" are falsy
Falsy(x) == IF x = None THEN TRUE ELSE x[1] = <<>>

\* s.split(' ', 1)
SplitOnce(s) ==
    LET spaces == {i \in DOMAIN s : s[i] = 32}
    IN  IF spaces = {} THEN <<s>>
        ELSE LET k == CHOOSE i \in spaces : \A j \in spaces : i <= j
             IN  <<SubSeq(s, 1, k - 1), SubSeq(s, k + 1, Len(s))>>

\* str.isascii()
IsAscii(s) == \A i \in DOMAIN s : s[i] < 128

\* hmac.compare_digest(a, b) on two str: TypeError unless both are ASCII
compare_digest(a, b) ==
    IF IsAscii(a) /\ IsAscii(b)
    THEN (IF a = b THEN "equal" ELSE "different")
    ELSE "TypeError"

\* "bearer"
BearerScheme == <<98, 101, 97, 114, 101, 114>>

\* '/d/'
SlashDSlash == <<47, 100, 47>>

\* '/d/' in url
UrlHasD(url) ==
    \E i \in 1..(Len(url) - 2) : SubSeq(url, i, i + 2) = SlashDSlash

\* url.split('/d/')[1].split('/')[0], for a url that holds '/d/'
UrlFileId(url) ==
    LET starts == {i \in 1..(Len(url) - 2) :
                       SubSeq(url, i, i + 2) = SlashDSlash}
        p == CHOOSE i \in starts : \A j \in starts : i <= j
        \* where the second piece of split('/d/') ends
        later == {i \in starts : i >= p + 3}
        q == IF later = {} THEN Len(url) + 1
             ELSE CHOOSE i \in later : \A j \in later : i <= j
        rest == SubSeq(url, p + 3, q - 1)
        slashes == {j \in DOMAIN rest : rest[j] = 47}
    IN  IF slashes = {} THEN rest
        ELSE SubSeq(rest, 1,
                    (CHOOSE j \in slashes : \A k \in slashes : j <= k) - 1)

\* the drive_url taken although a file_id was supplied
ChooseFileIdUrlFirst(given, drive_url) ==
    IF ~Falsy(drive_url)
    THEN IF UrlHasD(drive_url[1])
         THEN [file_id |-> Some(UrlFileId(drive_url[1])), bad_url |-> FALSE]
         ELSE [file_id |-> given, bad_url |-> TRUE]
    ELSE [file_id |-> given, bad_url |-> FALSE]

\* if not file_id and drive_url: if '/d/' in drive_url: file_id = ...
\* else: the 400 answer "Could not extract file_id from drive_url"
ChooseFileId(given, drive_url) ==
    IF Falsy(given) /\ ~Falsy(drive_url)
    THEN IF UrlHasD(drive_url[1])
         THEN [file_id |-> Some(UrlFileId(drive_url[1])), bad_url |-> FALSE]
         ELSE [file_id |-> given, bad_url |-> TRUE]
    ELSE [file_id |-> given, bad_url |-> FALSE]

\* missing_fields of validate_request_data
MissingFields(body, required) == {f \in required : Falsy(body[f])}

\* [a-zA-Z0-9-_]
IsIdChar(c) == c \in (48..57) \cup (65..90) \cup (97..122) \cup {45, 95}

\* the longest run of [a-zA-Z0-9-_] of url that starts at position i
RECURSIVE IdRun(_, _)
IdRun(url, i) ==
    IF i > Len(url) THEN <<>>
    ELSE IF ~IsIdChar(url[i]) THEN <<>>
    ELSE <<url[i]>> \o IdRun(url, i + 1)

\* re.search(prefix + '([a-zA-Z0-9-_]+)', url): group 1 of the leftmost
\* match, None without a match
Search(prefix, url) ==
    LET at == {i \in 1..Len(url) :
                  IF i + Len(prefix) > Len(url) THEN FALSE
                  ELSE /\ SubSeq(url, i, i + Len(prefix) - 1) = prefix
                       /\ IsIdChar(url[i + Len(prefix)])}
    IN  IF at = {} THEN None
        ELSE LET first == CHOOSE i \in at : \A j \in at : i <= j
             IN  Some(IdRun(url, first + Len(prefix)))

\* the three patterns in turn: '/d/', 'id=', 'file/d/'
extract_file_id_from_url(url) ==
    IF Search(<<47, 100, 47>>, url) # None
    THEN Search(<<47, 100, 47>>, url)
    ELSE IF Search(<<105, 100, 61>>, url) # None
    THEN Search(<<105, 100, 61>>, url)
    ELSE Search(<<102, 105, 108, 101, 47, 100, 47>>, url)

\* every answer taken for a yes
AffirmativeAlways(answer) == TRUE

\* answer in ['y', 'yes']
Affirmative(answer) == answer \in {<<121>>, <<121, 101, 115>>}

\* not current_file: get_file_info gave None, or a dict without keys
NoFileInfo(info) == IF info = None THEN TRUE ELSE info[1] = {}

\* a value of a row or item under one key: the key is absent, the value
\* is None (a CSV row shorter than the header, a JSON null), or a string
Absent == [kind |-> "absent", val |-> <<>>]
Null == [kind |-> "null", val |-> <<>>]
Str(s) == [kind |-> "str", val |-> s]

\* row.get(key, ''): the default only stands in for an absent key
GetOrEmpty(cell) == IF cell.kind = "absent" THEN Str(<<>>) ELSE cell

\* row.get(key, '').strip() raises AttributeError on None
StripRaises(cell) == GetOrEmpty(cell).kind = "null"

\* row.get(key, '').strip() where it does not raise
Stripped(cell) == strip(GetOrEmpty(cell).val)

\* the comparison with the original name left out
SameNameNever(suggested_name, original_name) == FALSE

\* if suggested_name == original_name:
SameName(suggested_name, original_name) == suggested_name = original_name

\* not record_data, for the dict of fields: None and {} are falsy
NoRecord(fetched) ==
    IF fetched = None THEN TRUE
    ELSE /\ fetched[1].file_id = None
         /\ fetched[1].suggested_name = None
         /\ fetched[1].original_name = None
         /\ ~fetched[1].other

\* the extraction error overlooked
VisionFailedIgnored(vision_error) == FALSE

\* if vision_error:
VisionFailed(vision_error) == ~Falsy(vision_error)

\* if error: (after download_file_from_drive)
DownloadFailed(error) == ~Falsy(error)

(***************************************************************************)
(* validate_bearer_token                                                   *)
(***************************************************************************)
validate_bearer_token(header, configured) ==
    IF Falsy(configured) THEN TRUE
    ELSE IF Falsy(header) THEN FALSE
    ELSE LET parts == SplitOnce(header[1])
         IN  IF Len(parts) # 2 THEN FALSE
             ELSE IF Lower(parts[1]) # BearerScheme THEN FALSE
             ELSE compare_digest(parts[2], configured[1]) = "equal"

(***************************************************************************)
(* fix_hebrew_text_direction                                               *)
(***************************************************************************)
\* any(pattern in line for pattern in [...])
LooksMirrored(line) == \E p \in MirroredPatterns : Contains(p, line)

\* every line that has a Hebrew letter reversed
FixLineAnyHebrew(line) == IF HasHebrew(line) THEN Reverse(line) ELSE line

\* the body of the loop over lines
FixLine(line) ==
    IF HasHebrew(line)
    THEN IF LooksMirrored(line) THEN Reverse(line) ELSE line
    ELSE line

\* every line reversed, whatever it holds
RepairEveryLine(t) ==
    LET lines == split(t)
    IN  join(<<10>>, [i \in 1..Len(lines) |-> Reverse(lines[i])])

fix_hebrew_text_direction(t) ==
    IF ~HasHebrew(t) THEN t
    ELSE LET lines == split(t)
         IN  join(<<10>>, [i \in 1..Len(lines) |-> FixLine(lines[i])])

(***************************************************************************)
(* Inputs: declared file names, file contents and provider responses.      *)
(***************************************************************************)
AllSeqs(A, n) == UNION {[1..k -> A] : k \in 0..n}

\* 'a', '\n' and the three letters of the first reference substring
Alphabet == {97, 10, 1498, 1502, 1505}

\* "Invoice #100", a Hebrew greeting without reference substring, " a ",
\* "a\n<1st reference substring> a", " \n", the 4th reference substring,
\* and the words "No text or recognizable content found in photo.jpg"
SampleTexts ==
    { <<73, 110, 118, 111, 105, 99, 101, 32, 35, 49, 48, 48>>,
      <<1513, 1500, 1493, 1501, 32, 1506, 1493, 1500, 1501>>,
      <<32, 97, 32>>,
      <<97, 10, 1498, 1502, 1505, 32, 97>>,
      <<32, 10>>,
      <<1497, 1511, 32, 1497, 1511>>,
      NoContentPrefix \o <<112, 104, 111, 116, 111, 46, 106, 112, 103>> }

\* what document_text_detection / text_detection can hold as text
Texts == AllSeqs(Alphabet, MaxLen) \cup SampleTexts

\* the 1st reference substring inside a longer Hebrew word; the 2nd and the
\* 3rd reference substring; the 1st followed by its own reversal on the
\* next line; "a", an empty line, then a Hebrew line without any of them
RepairSamples ==
    { <<1513, 1498, 1502, 1505, 1488>>,
      <<1498, 1488, 1512, 1488, 1514>>,
      <<1512, 1493, 1489, 1505, 1500>>,
      <<1498, 1502, 1505, 10, 1505, 1502, 1498>>,
      <<97, 10, 10, 1513, 1500, 1493, 1501>> }

\* the texts fix_hebrew_text_direction is called with
RepairTexts == Texts \cup RepairSamples

\* unset, "", "t", "t u", and a token with a non-ASCII letter
ConfiguredTokens ==
    {None, Some(<<>>), Some(<<116>>), Some(<<116, 32, 117>>), Some(<<233>>)}

\* "Bearer", "bearer", "BEARER", "Basic"
Schemes ==
    { <<66, 101, 97, 114, 101, 114>>, BearerScheme,
      <<66, 69, 65, 82, 69, 82>>, <<66, 97, 115, 105, 99>> }

\* what can follow the scheme and one space
SentTokens ==
    {<<116>>, <<117>>, <<116, 32, 117>>, <<233>>, <<>>, <<32, 116>>}

\* no header, an empty one, "<scheme> <token>", and headers without a
\* space: "Bearer", "t", "Bearert"
AuthHeaders ==
    {None, Some(<<>>)}
        \cup {Some(sch \o <<32>> \o tok) : sch \in Schemes, tok \in SentTokens}
        \cup {Some(<<66, 101, 97, 114, 101, 114>>), Some(<<116>>),
              Some(<<66, 101, 97, 114, 101, 114, 116>>)}

\* "h/d/F/v", "h/d/F", "h/x/F" (no '/d/'), "h/d//v" (nothing after
\* '/d/'), "h/d/F/d/G"
DriveUrls ==
    { <<104, 47, 100, 47, 70, 47, 118>>,
      <<104, 47, 100, 47, 70>>,
      <<104, 47, 120, 47, 70>>,
      <<104, 47, 100, 47, 47, 118>>,
      <<104, 47, 100, 47, 70, 47, 100, 47, 71>> }

\* request.json: no JSON object at all, or an object with the fields the
\* handlers read, each absent, empty or set ("G", "R", "N", a url)
Bodies ==
    {None} \cup
    {Some([file_id |-> f, record_id |-> r, drive_url |-> u, new_name |-> n]) :
        f \in {None, Some(<<>>), Some(<<71>>)},
        r \in {None, Some(<<82>>)},
        u \in {None} \cup {Some(d) : d \in DriveUrls},
        n \in {None, Some(<<78>>)}}

\* the bodies /auto-rename-file reads: no object, no record_id, "R"
AutoBodies ==
    {None} \cup
    {Some([file_id |-> None, record_id |-> r, drive_url |-> None,
           new_name |-> None]) : r \in {None, Some(<<82>>)}}

\* what get_airtable_record returns: None, or the fields of the record:
\* the three the handler reads (absent, empty, "G", "N", "O") and whether
\* the record has any other field
AirtableRecords ==
    {None} \cup
    {Some([file_id |-> f, suggested_name |-> n, original_name |-> o,
           other |-> x]) :
        f \in {None, Some(<<71>>)},
        n \in {None, Some(<<>>), Some(<<78>>), Some(<<79>>)},
        o \in {None, Some(<<79>>)},
        x \in BOOLEAN}

\* what the user types at "Enter your choice": "1", " 2", "3"
TypedChoices == {<<49>>, <<32, 50>>, <<51>>}

\* what the user types for the file id: " ", "G", "H "
TypedIds == {<<32>>, <<71>>, <<72, 32>>}

\* what the user pastes for the URL: "", "x", "/d/K", "?id=L"
TypedUrls == {<<>>, <<120>>, <<47, 100, 47, 75>>, <<63, 105, 100, 61, 76>>}

\* what get_file_info returns: None, a dict without keys, a dict with a name
FileInfos == {None, Some({}), Some({"name"})}

\* what the user types for the new name: " ", "N"
TypedNames == {<<32>>, <<78>>}

\* what the user answers to a y/n question: "y", " YES", "n", ""
TypedAnswers == {<<121>>, <<32, 89, 69, 83>>, <<110>>, <<>>}

\* a row of the CSV file or an item of the JSON list, with what it holds
\* under file_id (absent, None, " ", " A") and under new_name (absent,
\* None, "N"); only a JSON item can be something else than a dict
Entries(fmt) ==
    {[dict |-> TRUE, file_id |-> f, new_name |-> n] :
        f \in {Absent, Null, Str(<<32>>), Str(<<32, 65>>)},
        n \in {Absent, Null, Str(<<78>>)}}
    \cup (IF fmt = "json"
          THEN {[dict |-> FALSE, file_id |-> Absent, new_name |-> Absent]}
          ELSE {})

\* the lists of at most MaxEntries entries
EntryLists(fmt) ==
    UNION {[1..n -> Entries(fmt)] : n \in 0..MaxEntries}

\* no token configured, or "t"
ServerTokens == {None, Some(<<116>>)}

\* no header, "Bearer t", "Bearer u"
RequestHeaders ==
    {None, Some(<<66, 101, 97, 114, 101, 114, 32, 116>>),
     Some(<<66, 101, 97, 114, 101, 114, 32, 117>>)}

\* what download_file_from_drive and process_with_vision_api hand back
\* as error: none, a message, an empty message (str(e) of a bare exception)
ErrorMessages == {None, Some(<<101>>), Some(<<>>)}

\* the calls in flight
Requests == {"r1", "r2"}

\* "a.pdf", "photo.jpg"
ConcNames == {<<97, 46, 112, 100, 102>>,
              <<112, 104, 111, 116, 111, 46, 106, 112, 103>>}

\* a provider's answer: an exception, or the value it returns
Raises == [raises |-> TRUE, value |-> <<>>]
Gives(v) == [raises |-> FALSE, value |-> v]

\* what the PDF parser and the four Vision methods answer to one call:
\* nothing anywhere; text everywhere; parser and document OCR raising;
\* only labels; object localization raising; only generic OCR text
Responses ==
    { [pages |-> Gives(<<<<32>>>>), doc |-> Gives(<<>>), ocr |-> Gives(<<>>),
       objects |-> Gives(<<>>), labels |-> Gives(<<>>)],
      [pages |-> Gives(<<<<97>>, <<1498, 1502, 1505>>>>),
       doc |-> Gives(<<97, 32>>), ocr |-> Gives(<<<<97>>>>),
       objects |-> Gives(<<<<99, 97, 116>>>>),
       labels |-> Gives(<<<<99, 97, 116>>>>)],
      [pages |-> Raises, doc |-> Raises, ocr |-> Gives(<<>>),
       objects |-> Gives(<<>>), labels |-> Gives(<<>>)],
      [pages |-> Gives(<<>>), doc |-> Gives(<<32>>), ocr |-> Gives(<<<<10>>>>),
       objects |-> Gives(<<>>),
       labels |-> Gives(<<<<99, 97, 116>>, <<1498, 1502, 1505>>>>)],
      [pages |-> Raises, doc |-> Gives(<<>>), ocr |-> Gives(<<>>),
       objects |-> Raises, labels |-> Gives(<<>>)],
      [pages |-> Gives(<<<<10>>>>), doc |-> Gives(<<>>),
       ocr |-> Gives(<<<<1498, 1502, 1505>>, <<97>>>>),
       objects |-> Gives(<<>>), labels |-> Raises] }

\* response.text_annotations: the descriptions, the first one the whole text
TextAnnotations ==
    {<<>>} \cup {<<t>> : t \in Texts} \cup {<<t, <<97>>>> : t \in Texts}

\* "Invoice #100", the 1st reference substring, " ", "a\n<1st substring>"
SamplePages ==
    { <<73, 110, 118, 111, 105, 99, 101, 32, 35, 49, 48, 48>>,
      <<1498, 1502, 1505>>,
      <<32>>,
      <<97, 10, 1498, 1502, 1505>> }

\* what page.extract_text() can return
PageTexts == AllSeqs(Alphabet, MaxPageLen) \cup SamplePages

\* "cat", the 1st reference substring
Names == {<<99, 97, 116>>, <<1498, 1502, 1505>>}

\* response.localized_object_annotations / response.label_annotations
NameLists == AllSeqs(Names, MaxItems)

\* "photo.jpg", "<1st reference substring>.jpg", "a.pdf", "B.PDF", "pdf",
\* ".pdf"
FileNames ==
    { <<112, 104, 111, 116, 111, 46, 106, 112, 103>>,
      <<1498, 1502, 1505, 46, 106, 112, 103>>,
      <<97, 46, 112, 100, 102>>,
      <<66, 46, 80, 68, 70>>,
      <<112, 100, 102>>,
      <<46, 112, 100, 102>> }

\* the bytes of the file, as an opaque identity
FileContents == {"bytes1", "bytes2"}

VisualStrategies ==
    {"DocumentOCR", "GenericOCR", "ObjectDetection", "LabelDetection"}

(***************************************************************************)
(* State.                                                                  *)
(***************************************************************************)
VARIABLES
    pc,            \* position in process_with_vision_api
    file_name,     \* declared name of the file
    file_content,  \* its bytes
    text,          \* local of extract_text_from_pdf: the pages concatenated
    page_text,     \* local of extract_text_from_pdf: the page just read
    page_num,      \* local of extract_text_from_pdf: pages read so far
    pages,         \* local of extract_text_from_pdf: the page texts read
    result,        \* the (text, error) pair returned
    calls,         \* history: strategies invoked, in order, with outcomes
    raw,           \* history: the text the successful strategy produced
    items,         \* history: the objects / labels the provider listed
    dropped        \* history: the parser raised with page text collected

\* one call of fix_hebrew_text_direction
VARIABLES
    repair_pc,     \* "idle", "call", "returned"
    repair_in,     \* the text passed in
    repair_out     \* what the call returned

cascadeVars == <<pc, file_name, file_content, text, page_text, page_num,
                 pages, result, calls, raw, items, dropped>>

\* several calls of process_with_vision_api running in one process
VARIABLES
    requests,      \* per call: its arguments, provider responses and locals
    environ,       \* os.environ['GOOGLE_APPLICATION_CREDENTIALS']
    returned       \* per call: the (text, error) pair handed to its caller

\* one call of validate_bearer_token
VARIABLES
    token_pc,            \* "idle", "call", "returned"
    FLASK_SERVER_TOKEN,  \* the configured token, None when the variable is unset
    auth_header,         \* the Authorization header, None when there is none
    is_valid             \* what validate_bearer_token returned

\* one request to /download-and-analyze-vision, /download-and-analyze or
\* /rename-file of app.py, or to /auto-rename-file of
\* app_v2_complex-auto-rename.py
VARIABLES
    handler_pc,    \* where the handler stands, "done" once it has answered
    endpoint,      \* "vision", "analyze", "rename" or "auto_rename"
    signature,     \* WEBHOOK_SECRET and X-Hub-Signature-256: "no_secret",
                   \* "valid" or "invalid"
    data,          \* request.json: None, or the fields of the object
    file_id,       \* local: the Drive file id the handler settled on
    effects,       \* history: the external calls made, with their success
    status,        \* the HTTP status answered, 0 before
    record_data,   \* local of auto_rename_file: the fields fetched, or None
    succeeded      \* the "success" member of the answer of auto_rename_file

repairVars == <<repair_pc, repair_in, repair_out>>

\* one run of main() of interactive_rename.py, from the while loop on
VARIABLES
    loop_pc,        \* the input or call the loop waits at, "exit" after break
    chosen_id,      \* local file_id of main
    current_file,   \* local current_file: None or the keys of the metadata
    new_name,       \* local new_name
    confirm,        \* local confirm
    another,        \* local another
    assigned,       \* history: what this iteration has assigned or called
    drive_renames   \* history: the number of calls of rename_file

interactiveVars == <<loop_pc, chosen_id, current_file, new_name, confirm,
                     another, assigned, drive_renames>>

\* one call of process_csv_file or process_json_file
VARIABLES
    batch_pc,       \* where the call stands, "done" once it has returned
    format,         \* "csv" or "json"
    batch_file,     \* "missing", "not_list" or "list"
    entries,        \* the rows of the CSV file / the items of the JSON list
    total_count,
    success_count,
    drive_calls,    \* history: the Drive calls made, with entry and success
    batch_returned  \* what the call returned, None before

batchVars == <<batch_pc, format, batch_file, entries, total_count,
               success_count, drive_calls, batch_returned>>

handlerVars == <<handler_pc, endpoint, signature, data, file_id, effects,
                 status, record_data, succeeded>>

tokenVars == <<token_pc, FLASK_SERVER_TOKEN, auth_header, is_valid>>

\* the variables of the handlers and scripts around the cascade
laterVars == <<tokenVars, handlerVars, interactiveVars, batchVars>>

concVars == <<requests, environ, returned>>

vars == <<cascadeVars, repairVars, concVars, laterVars>>

\* what a step of the cascade leaves alone
otherVars == <<repairVars, concVars, laterVars>>

(***************************************************************************)
(* The decisions of extract_text_from_pdf and process_with_vision_api.     *)
(***************************************************************************)
\* the suffix test without lower()
IsPdfCaseSensitive(name) == EndsWith(name, PdfSuffix)

\* file_name.lower().endswith('.pdf')
IsPdf(name) == EndsWith(Lower(name), PdfSuffix)

\* the page appended without its separator: text += page_text
AppendPageNoSeparator(t, p) == IF strip(p) # <<>> THEN t \o p ELSE t

\* if page_text.strip(): text += page_text + "\n"
AppendPage(t, p) == IF strip(p) # <<>> THEN t \o p \o <<10>> ELSE t

\* extracted_text = text.strip() if text.strip() else None
StrippedOrNone(t) == IF strip(t) # <<>> THEN Some(strip(t)) ELSE None

\* if extracted_text: extracted_text = fix_hebrew_text_direction(...)
extract_text_from_pdf(t) ==
    IF StrippedOrNone(t) # None
    THEN Some(fix_hebrew_text_direction(StrippedOrNone(t)[1]))
    ELSE None

\* the success test without the blank check: if response.full_text_annotation
DocumentTextUnchecked(t) == Some(strip(t))

\* full_text_annotation and full_text_annotation.text.strip()
DocumentText(t) == IF strip(t) # <<>> THEN Some(strip(t)) ELSE None

\* texts and texts[0].description.strip()
OcrText(texts) ==
    IF texts # <<>> /\ strip(texts[1]) # <<>> THEN Some(strip(texts[1]))
    ELSE None

\* the summary over all the objects, without objects[:5]
ObjectsSummaryAll(objects) ==
    IF objects # <<>>
    THEN Some(ObjectsPrefix \o join(CommaSpace, objects))
    ELSE None

\* f"Objects detected: {', '.join(object_names)}"
ObjectsSummary(objects) ==
    IF objects # <<>>
    THEN Some(ObjectsPrefix \o join(CommaSpace, Take(objects, TopN)))
    ELSE None

\* f"Image contains: {', '.join(label_names)}"
LabelsSummary(labels) ==
    IF labels # <<>>
    THEN Some(LabelsPrefix \o join(CommaSpace, Take(labels, TopN)))
    ELSE None

\* the sentence without the file name
NoContentNameless(name) == NoContentPrefix

\* f"No text or recognizable content found in {file_name}"
NoContent(name) == NoContentPrefix \o name

\* return extracted_text, None
\* a result of three components, the third naming a strategy
ReturnedWithStrategy(t) ==
    [text |-> Some(t), error |-> None, strategy_used |-> "unknown"]

\* the text passed through fix_hebrew_text_direction on its way out
ReturnedRepaired(t) ==
    [text |-> Some(fix_hebrew_text_direction(t)), error |-> None]

Returned(t) == [text |-> Some(t), error |-> None]

\* the handler returning the local extracted_text ("" so far) with the error
VisionErrorWithText(strategy) ==
    [text |-> Some(<<>>), error |-> Some(<<"Vision API error", strategy>>)]

\* return None, f"Vision API error: {str(e)}"
VisionError(strategy) ==
    [text |-> None, error |-> Some(<<"Vision API error", strategy>>)]

\* no result yet
NoResult == [text |-> None, error |-> None]

\* the stage after a visual strategy
StageAfter(strategy) ==
    CASE strategy = "DocumentOCR" -> "text_ocr"
      [] strategy = "GenericOCR" -> "objects"
      [] strategy = "ObjectDetection" -> "labels"
      [] OTHER -> "done"

\* a handler that calls the strategy that raised once more
ExceptionHandlerRetry(strategy) ==
    [pc |-> CASE strategy = "DocumentOCR" -> "doc_ocr"
              [] strategy = "GenericOCR" -> "text_ocr"
              [] strategy = "ObjectDetection" -> "objects"
              [] OTHER -> "labels",
     result |-> NoResult]

\* a handler at each strategy's boundary: only the last strategy's failure
\* is reported, the others continue with the next strategy
ExceptionHandlerPerStrategy(strategy) ==
    IF strategy = "LabelDetection"
    THEN [pc |-> "done", result |-> VisionError(strategy)]
    ELSE [pc |-> StageAfter(strategy), result |-> NoResult]

\* a handler reporting the failure as "no content"
ExceptionHandlerNoContent(strategy) ==
    [pc |-> "done", result |-> Returned(NoContentPrefix \o file_name)]

\* no handler: the exception leaves process_with_vision_api
ExceptionHandlerMissing(strategy) == [pc |-> "raised", result |-> NoResult]

\* except Exception as e: of process_with_vision_api, for an exception of
\* the visual strategy running
ExceptionHandler(strategy) == [pc |-> "done", result |-> VisionError(strategy)]

\* the native text never ends the cascade
AfterNativeFallsThrough(pdf_text) == [pc |-> "doc_ocr", result |-> NoResult]

\* if pdf_text: return pdf_text, None / else fall through to the Vision API
AfterNative(pdf_text) ==
    IF pdf_text # None /\ pdf_text[1] # <<>>
    THEN [pc |-> "done", result |-> Returned(pdf_text[1])]
    ELSE [pc |-> "doc_ocr", result |-> NoResult]

\* the cascade goes on after a success
AfterVisualContinues(found, next) ==
    IF found # None /\ next = "labels"
    THEN [pc |-> "done", result |-> Returned(found[1])]
    ELSE [pc |-> next, result |-> NoResult]

\* a visual strategy returned: its text ends the cascade, nothing continues it
AfterVisual(found, next) ==
    IF found # None
    THEN [pc |-> "done", result |-> Returned(found[1])]
    ELSE [pc |-> next, result |-> NoResult]

\* the parse failure reaches the handler of process_with_vision_api
PdfExceptionPropagates ==
    [pc |-> "done", result |-> VisionError("NativeText")]

\* the handler returning what the loop had collected so far
PdfExceptionReturnsPartial == AfterNative(extract_text_from_pdf(text))

\* except Exception as e: of extract_text_from_pdf returns None, which
\* process_with_vision_api takes as "no text layer"
PdfExceptionHandler == AfterNative(None)

Outcome(found) == IF found # None THEN "text" ELSE "empty"

Call(strategy, outcome) ==
    [strategy |-> strategy, outcome |-> outcome, content |-> file_content]

\* no call of validate_bearer_token
TokenIdle ==
    /\ token_pc = "idle"
    /\ FLASK_SERVER_TOKEN = None
    /\ auth_header = None
    /\ is_valid = FALSE

\* no request
HandlerIdle ==
    /\ handler_pc = "idle"
    /\ endpoint = "none"
    /\ signature = "no_secret"
    /\ data = None
    /\ file_id = None
    /\ effects = <<>>
    /\ status = 0
    /\ record_data = None
    /\ succeeded = FALSE

\* the interactive tool is not running
InteractiveIdle ==
    /\ loop_pc = "idle"
    /\ chosen_id = None
    /\ current_file = None
    /\ new_name = <<>>
    /\ confirm = <<>>
    /\ another = <<>>
    /\ assigned = {}
    /\ drive_renames = 0

\* no batch is running
BatchIdle ==
    /\ batch_pc = "idle"
    /\ format = "csv"
    /\ batch_file = "missing"
    /\ entries = <<>>
    /\ total_count = 0
    /\ success_count = 0
    /\ drive_calls = <<>>
    /\ batch_returned = None

\* nothing around the cascade is running
LaterIdle == TokenIdle /\ HandlerIdle /\ InteractiveIdle /\ BatchIdle

\* a call that is not running
IdleRequest ==
    [pc |-> "idle", file_name |-> <<>>, file_content |-> "bytes1",
     responses |-> CHOOSE p \in Responses : TRUE, calls |-> <<>>,
     client |-> "", read_from |-> "none"]

Init ==
    /\ pc = "start"
    /\ file_name \in FileNames
    /\ file_content \in FileContents
    /\ text = <<>>
    /\ page_text = <<>>
    /\ page_num = 0
    /\ pages = <<>>
    /\ result = NoResult
    /\ calls = <<>>
    /\ raw = None
    /\ items = <<>>
    /\ dropped = FALSE
    /\ repair_pc = "idle"
    /\ repair_in = <<>>
    /\ repair_out = <<>>
    /\ requests = [r \in Requests |-> IdleRequest]
    /\ environ = [value |-> "", writer |-> "none"]
    /\ returned = [r \in Requests |-> NoResult]
    /\ LaterIdle

\* if file_name.lower().endswith('.pdf'):
Enter ==
    /\ pc = "start"
    /\ pc' = IF IsPdf(file_name) THEN "pdf_open" ELSE "doc_ocr"
    /\ UNCHANGED <<file_name, file_content, text, page_text, page_num,
                   pages, result, calls, raw, items>>
    /\ UNCHANGED <<dropped, otherVars>>

\* pdf_reader = PyPDF2.PdfReader(pdf_file); text = ""
PdfOpen ==
    /\ pc = "pdf_open"
    /\ pc' = "pdf_page"
    /\ text' = <<>>
    /\ UNCHANGED <<file_name, file_content, page_text, page_num, pages,
                   result, calls, raw, items>>
    /\ UNCHANGED <<dropped, otherVars>>

\* PdfReader, the iteration over pdf_reader.pages or page.extract_text()
\* raises: extract_text_from_pdf returns None and process_with_vision_api
\* falls through
PdfRaises ==
    /\ pc \in {"pdf_open", "pdf_page"}
    /\ pc' = PdfExceptionHandler.pc
    /\ result' = PdfExceptionHandler.result
    /\ calls' = Append(calls, Call("NativeText", "raised"))
    /\ text' = <<>> /\ page_text' = <<>> /\ page_num' = 0 /\ pages' = <<>>
    /\ dropped' = (text # <<>>)
    /\ UNCHANGED <<file_name, file_content, raw, items>>
    /\ UNCHANGED otherVars

\* one iteration of: for page_num, page in enumerate(pdf_reader.pages)
PdfPage ==
    /\ pc = "pdf_page"
    /\ page_num < MaxPages
    /\ \E p \in PageTexts :
          /\ page_text' = p
          /\ text' = AppendPage(text, p)
          /\ pages' = Append(pages, p)
    /\ page_num' = page_num + 1
    /\ UNCHANGED <<pc, file_name, file_content, result, calls, raw, items>>
    /\ UNCHANGED <<dropped, otherVars>>

\* the loop is over: extract_text_from_pdf returns (its locals are gone),
\* and process_with_vision_api returns the text or falls through
PdfReturn ==
    /\ pc = "pdf_page"
    /\ LET pdf_text == extract_text_from_pdf(text)
       IN  /\ pc' = AfterNative(pdf_text).pc
           /\ result' = AfterNative(pdf_text).result
           /\ calls' = Append(calls, Call("NativeText", Outcome(pdf_text)))
           /\ raw' = IF pdf_text # None THEN StrippedOrNone(text) ELSE raw
    /\ text' = <<>> /\ page_text' = <<>> /\ page_num' = 0 /\ pages' = <<>>
    /\ UNCHANGED <<file_name, file_content, items>>
    /\ UNCHANGED <<dropped, otherVars>>

\* a visual strategy returned found (None when its success test failed)
VisualReturns(strategy, found, rawText, next) ==
    /\ pc' = AfterVisual(found, next).pc
    /\ result' = AfterVisual(found, next).result
    /\ calls' = Append(calls, Call(strategy, Outcome(found)))
    /\ raw' = IF found # None THEN rawText ELSE raw
    /\ UNCHANGED <<file_name, file_content, text, page_text, page_num, pages>>
    /\ UNCHANGED <<dropped, otherVars>>

\* a visual strategy raised
VisualRaises(strategy) ==
    /\ pc' = ExceptionHandler(strategy).pc
    /\ result' = ExceptionHandler(strategy).result
    /\ calls' = Append(calls, Call(strategy, "raised"))
    /\ UNCHANGED <<file_name, file_content, text, page_text, page_num, pages,
                   raw, items>>
    /\ UNCHANGED <<dropped, otherVars>>

\* client = get_vision_client(); image = vision.Image(content=file_content)
\* response = client.document_text_detection(image=image)
DocumentOCR ==
    /\ pc = "doc_ocr"
    /\ \E t \in Texts :
          VisualReturns("DocumentOCR", DocumentText(t), DocumentText(t),
                        "text_ocr")
    /\ UNCHANGED items

DocumentOCRRaises ==
    /\ pc = "doc_ocr"
    /\ VisualRaises("DocumentOCR")

\* response = client.text_detection(image=image)
GenericOCR ==
    /\ pc = "text_ocr"
    /\ \E texts \in TextAnnotations :
          VisualReturns("GenericOCR", OcrText(texts), OcrText(texts),
                        "objects")
    /\ UNCHANGED items

GenericOCRRaises ==
    /\ pc = "text_ocr"
    /\ VisualRaises("GenericOCR")

\* response = client.object_localization(image=image)
ObjectDetection ==
    /\ pc = "objects"
    /\ \E objects \in NameLists :
          /\ VisualReturns("ObjectDetection", ObjectsSummary(objects), None,
                           "labels")
          /\ items' = objects

ObjectDetectionRaises ==
    /\ pc = "objects"
    /\ VisualRaises("ObjectDetection")

\* response = client.label_detection(image=image); with no label the text
\* is the "no content" sentence
LabelDetection ==
    /\ pc = "labels"
    /\ \E labels \in NameLists :
          /\ pc' = "done"
          /\ result' = IF LabelsSummary(labels) # None
                       THEN Returned(LabelsSummary(labels)[1])
                       ELSE Returned(NoContent(file_name))
          /\ calls' = Append(calls, Call("LabelDetection",
                                         Outcome(LabelsSummary(labels))))
          /\ items' = labels
    /\ UNCHANGED <<file_name, file_content, text, page_text, page_num, pages,
                   raw>>
    /\ UNCHANGED <<dropped, otherVars>>

LabelDetectionRaises ==
    /\ pc = "labels"
    /\ VisualRaises("LabelDetection")

Next ==
    \/ Enter
    \/ PdfOpen
    \/ PdfRaises
    \/ PdfPage
    \/ PdfReturn
    \/ DocumentOCR
    \/ DocumentOCRRaises
    \/ GenericOCR
    \/ GenericOCRRaises
    \/ ObjectDetection
    \/ ObjectDetectionRaises
    \/ LabelDetection
    \/ LabelDetectionRaises

Spec == Init /\ [][Next]_vars

\* the call returns or raises: every step of the request is taken
FairSpec == Spec /\ WF_vars(Next)

(***************************************************************************)
(* fix_hebrew_text_direction called on its own.                            *)
(***************************************************************************)
RepairInit ==
    /\ pc = "idle"
    /\ file_name = <<>>
    /\ file_content = "bytes1"
    /\ text = <<>>
    /\ page_text = <<>>
    /\ page_num = 0
    /\ pages = <<>>
    /\ result = NoResult
    /\ calls = <<>>
    /\ raw = None
    /\ items = <<>>
    /\ dropped = FALSE
    /\ repair_pc = "call"
    /\ repair_in \in RepairTexts
    /\ repair_out = <<>>
    /\ requests = [r \in Requests |-> IdleRequest]
    /\ environ = [value |-> "", writer |-> "none"]
    /\ returned = [r \in Requests |-> NoResult]
    /\ LaterIdle

\* if not hebrew_pattern.search(text): return text
RepairNoHebrew ==
    /\ repair_pc = "call"
    /\ ~HasHebrew(repair_in)
    /\ repair_out' = fix_hebrew_text_direction(repair_in)
    /\ repair_pc' = "returned"
    /\ UNCHANGED <<repair_in, cascadeVars, concVars, laterVars>>

\* the loop over the lines and return '\n'.join(fixed_lines)
RepairLines ==
    /\ repair_pc = "call"
    /\ HasHebrew(repair_in)
    /\ repair_out' = fix_hebrew_text_direction(repair_in)
    /\ repair_pc' = "returned"
    /\ UNCHANGED <<repair_in, cascadeVars, concVars, laterVars>>

RepairNext ==
    \/ RepairNoHebrew
    \/ RepairLines

RepairSpec == RepairInit /\ [][RepairNext]_vars

(***************************************************************************)
(* validate_bearer_token called on its own.                                *)
(***************************************************************************)
\* nothing of the cascade, the repair or the concurrent calls is running
EarlierIdle ==
    /\ pc = "idle"
    /\ file_name = <<>>
    /\ file_content = "bytes1"
    /\ text = <<>>
    /\ page_text = <<>>
    /\ page_num = 0
    /\ pages = <<>>
    /\ result = NoResult
    /\ calls = <<>>
    /\ raw = None
    /\ items = <<>>
    /\ dropped = FALSE
    /\ repair_pc = "idle"
    /\ repair_in = <<>>
    /\ repair_out = <<>>
    /\ requests = [r \in Requests |-> IdleRequest]
    /\ environ = [value |-> "", writer |-> "none"]
    /\ returned = [r \in Requests |-> NoResult]

TokenInit ==
    /\ EarlierIdle
    /\ token_pc = "call"
    /\ FLASK_SERVER_TOKEN \in ConfiguredTokens
    /\ auth_header \in AuthHeaders
    /\ is_valid = FALSE
    /\ HandlerIdle
    /\ InteractiveIdle
    /\ BatchIdle

\* what a call of validate_bearer_token leaves alone
TokenFrame ==
    UNCHANGED <<FLASK_SERVER_TOKEN, auth_header, cascadeVars, repairVars,
                concVars, handlerVars, interactiveVars,
                batchVars>>

\* if not FLASK_SERVER_TOKEN: return True
TokenNotConfigured ==
    /\ token_pc = "call"
    /\ Falsy(FLASK_SERVER_TOKEN)
    /\ is_valid' = validate_bearer_token(auth_header, FLASK_SERVER_TOKEN)
    /\ token_pc' = "returned"
    /\ TokenFrame

\* if not auth_header: return False
TokenHeaderMissing ==
    /\ token_pc = "call"
    /\ ~Falsy(FLASK_SERVER_TOKEN)
    /\ Falsy(auth_header)
    /\ is_valid' = validate_bearer_token(auth_header, FLASK_SERVER_TOKEN)
    /\ token_pc' = "returned"
    /\ TokenFrame

\* the try block: split, scheme test, compare_digest; False on exception
TokenCompared ==
    /\ token_pc = "call"
    /\ ~Falsy(FLASK_SERVER_TOKEN)
    /\ ~Falsy(auth_header)
    /\ is_valid' = validate_bearer_token(auth_header, FLASK_SERVER_TOKEN)
    /\ token_pc' = "returned"
    /\ TokenFrame

TokenNext ==
    \/ TokenNotConfigured
    \/ TokenHeaderMissing
    \/ TokenCompared

TokenSpec == TokenInit /\ [][TokenNext]_vars

(***************************************************************************)
(* The request handlers of app.py.                                         *)
(***************************************************************************)
HandlerInit ==
    /\ EarlierIdle
    /\ token_pc = "idle"
    /\ FLASK_SERVER_TOKEN \in ServerTokens
    /\ auth_header \in RequestHeaders
    /\ is_valid = FALSE
    /\ endpoint \in {"vision", "analyze", "rename"}
    /\ handler_pc = IF endpoint = "analyze" THEN "parse" ELSE "auth"
    /\ signature \in {"no_secret", "valid", "invalid"}
    /\ data \in Bodies
    /\ file_id = None
    /\ effects = <<>>
    /\ status = 0
    /\ record_data = None
    /\ succeeded = FALSE
    /\ InteractiveIdle
    /\ BatchIdle

\* what a step of a handler leaves alone
HandlerFrame ==
    UNCHANGED <<endpoint, signature, data, record_data, succeeded, token_pc,
                FLASK_SERVER_TOKEN, auth_header, cascadeVars, repairVars,
                concVars, interactiveVars, batchVars>>

\* return jsonify(...), code
Respond(code) ==
    /\ handler_pc' = "done"
    /\ status' = code

\* if not validate_bearer_token(auth_header): return ..., 401
HandlerAuth ==
    /\ handler_pc = "auth"
    /\ is_valid' = validate_bearer_token(auth_header, FLASK_SERVER_TOKEN)
    /\ IF ~is_valid'
       THEN Respond(401)
       ELSE handler_pc' = "signature" /\ status' = status
    /\ UNCHANGED <<file_id, effects>>
    /\ HandlerFrame

\* if WEBHOOK_SECRET: if not validate_webhook_signature(...): return ..., 401
HandlerSignature ==
    /\ handler_pc = "signature"
    /\ IF signature = "invalid"
       THEN Respond(401)
       ELSE handler_pc' = "parse" /\ status' = status
    /\ UNCHANGED <<file_id, effects, is_valid>>
    /\ HandlerFrame

\* data = request.json and the first data.get(...): without a JSON object
\* the exception reaches the handler's except clause; then
\* validate_request_data in the two handlers that call it
HandlerParse ==
    /\ handler_pc = "parse"
    /\ IF data = None
       THEN Respond(500) /\ file_id' = file_id
       ELSE IF endpoint = "vision" /\ MissingFields(data[1], {"record_id"}) # {}
       THEN Respond(400) /\ file_id' = file_id
       ELSE IF endpoint = "rename"
                /\ MissingFields(data[1], {"file_id", "new_name"}) # {}
       THEN Respond(400) /\ file_id' = file_id
       ELSE IF endpoint = "rename"
       THEN handler_pc' = "rename" /\ status' = status
                /\ file_id' = data[1].file_id
       ELSE handler_pc' = "file_id" /\ status' = status /\ file_id' = file_id
    /\ UNCHANGED <<effects, is_valid>>
    /\ HandlerFrame

\* file_id from the body or from drive_url; 400 when there is none (and,
\* in /download-and-analyze, when record_id is missing)
HandlerFileId ==
    /\ handler_pc = "file_id"
    /\ LET chosen == ChooseFileId(data[1].file_id, data[1].drive_url)
       IN  IF chosen.bad_url
           THEN Respond(400) /\ file_id' = file_id
           ELSE IF Falsy(chosen.file_id)
           THEN Respond(400) /\ file_id' = chosen.file_id
           ELSE IF endpoint = "analyze" /\ Falsy(data[1].record_id)
           THEN Respond(400) /\ file_id' = chosen.file_id
           ELSE handler_pc' = "download" /\ status' = status
                    /\ file_id' = chosen.file_id
    /\ UNCHANGED <<effects, is_valid>>
    /\ HandlerFrame

\* file_content, file_name, error = download_file_from_drive(file_id); an
\* error with an empty message passes `if error:` with file_content None,
\* which neither handler gets past (len(None), b64encode(None))
HandlerDownload ==
    /\ handler_pc = "download"
    /\ \E error \in ErrorMessages :
          /\ effects' = Append(effects, [call |-> "drive_download",
                                         ok |-> error = None])
          /\ IF DownloadFailed(error) \/ error # None
             THEN Respond(500)
             ELSE /\ handler_pc' = IF endpoint = "vision"
                                   THEN "extract" ELSE "upload"
                  /\ status' = status
    /\ UNCHANGED <<file_id, is_valid>>
    /\ HandlerFrame

\* extracted_text, vision_error = process_with_vision_api(...)
HandlerExtract ==
    /\ handler_pc = "extract"
    /\ \E vision_error \in {None, Some(<<101>>)} :
          /\ effects' = Append(effects, [call |-> "extract",
                                         ok |-> vision_error = None])
          /\ IF VisionFailed(vision_error)
             THEN Respond(500)
             ELSE handler_pc' = "update" /\ status' = status
    /\ UNCHANGED <<file_id, is_valid>>
    /\ HandlerFrame

\* success, message = update_airtable_field(record_id, "Text", ...)
HandlerUpdate ==
    /\ handler_pc = "update"
    /\ \E success \in BOOLEAN :
          /\ effects' = Append(effects, [call |-> "airtable_text",
                                         ok |-> success])
          /\ Respond(IF success THEN 200 ELSE 500)
    /\ UNCHANGED <<file_id, is_valid>>
    /\ HandlerFrame

\* success, message = upload_to_airtable_attachment(...)
HandlerUpload ==
    /\ handler_pc = "upload"
    /\ \E success \in BOOLEAN :
          /\ effects' = Append(effects, [call |-> "airtable_attachment",
                                         ok |-> success])
          /\ Respond(IF success THEN 200 ELSE 500)
    /\ UNCHANGED <<file_id, is_valid>>
    /\ HandlerFrame

\* success, message = rename_file_in_drive(file_id, new_name)
HandlerRename ==
    /\ handler_pc = "rename"
    /\ \E success \in BOOLEAN :
          /\ effects' = Append(effects, [call |-> "drive_rename",
                                         ok |-> success])
          /\ Respond(IF success THEN 200 ELSE 500)
    /\ UNCHANGED <<file_id, is_valid>>
    /\ HandlerFrame

HandlerNext ==
    \/ HandlerAuth
    \/ HandlerSignature
    \/ HandlerParse
    \/ HandlerFileId
    \/ HandlerDownload
    \/ HandlerExtract
    \/ HandlerUpdate
    \/ HandlerUpload
    \/ HandlerRename

HandlerSpec == HandlerInit /\ [][HandlerNext]_vars

(***************************************************************************)
(* /auto-rename-file of app_v2_complex-auto-rename.py.                     *)
(***************************************************************************)
AutoInit ==
    /\ EarlierIdle
    /\ token_pc = "idle"
    /\ FLASK_SERVER_TOKEN \in ServerTokens
    /\ auth_header \in RequestHeaders
    /\ is_valid = FALSE
    /\ endpoint = "auto_rename"
    /\ handler_pc = "auth"
    /\ signature \in {"no_secret", "valid", "invalid"}
    /\ data \in AutoBodies
    /\ file_id = None
    /\ effects = <<>>
    /\ status = 0
    /\ record_data = None
    /\ succeeded = FALSE
    /\ InteractiveIdle
    /\ BatchIdle

\* what a step of auto_rename_file leaves alone
AutoFrame ==
    UNCHANGED <<endpoint, signature, data, token_pc, FLASK_SERVER_TOKEN,
                auth_header, cascadeVars, repairVars, concVars, interactiveVars,
                batchVars>>

\* if not validate_bearer_token(auth_header): return ..., 401
AutoAuth ==
    /\ handler_pc = "auth"
    /\ is_valid' = validate_bearer_token(auth_header, FLASK_SERVER_TOKEN)
    /\ IF ~is_valid'
       THEN Respond(401)
       ELSE handler_pc' = "signature" /\ status' = status
    /\ UNCHANGED <<file_id, effects, record_data, succeeded>>
    /\ AutoFrame

\* if WEBHOOK_SECRET: if not validate_webhook_signature(...): return ..., 401
AutoSignature ==
    /\ handler_pc = "signature"
    /\ IF signature = "invalid"
       THEN Respond(401)
       ELSE handler_pc' = "parse" /\ status' = status
    /\ UNCHANGED <<file_id, effects, is_valid, record_data, succeeded>>
    /\ AutoFrame

\* data = request.json, data.get('record_id'), validate_request_data
AutoParse ==
    /\ handler_pc = "parse"
    /\ IF data = None
       THEN Respond(500)
       ELSE IF MissingFields(data[1], {"record_id"}) # {}
       THEN Respond(400)
       ELSE handler_pc' = "fetch" /\ status' = status
    /\ UNCHANGED <<file_id, effects, is_valid, record_data, succeeded>>
    /\ AutoFrame

\* record_data = get_airtable_record(record_id) and the tests on its fields
AutoFetch ==
    /\ handler_pc = "fetch"
    /\ \E fetched \in AirtableRecords :
          /\ record_data' = fetched
          /\ effects' = Append(effects, [call |-> "airtable_get",
                                         ok |-> fetched # None])
          /\ IF NoRecord(fetched)
             THEN Respond(500) /\ file_id' = file_id
             ELSE IF Falsy(fetched[1].file_id)
             THEN Respond(400) /\ file_id' = fetched[1].file_id
             ELSE IF Falsy(fetched[1].suggested_name)
             THEN Respond(200) /\ file_id' = fetched[1].file_id
             ELSE IF SameName(fetched[1].suggested_name,
                              fetched[1].original_name)
             THEN Respond(200) /\ file_id' = fetched[1].file_id
             ELSE /\ handler_pc' = "rename"
                  /\ status' = status
                  /\ file_id' = fetched[1].file_id
    /\ UNCHANGED <<is_valid, succeeded>>
    /\ AutoFrame

\* success, message = rename_file_in_drive(file_id, suggested_name)
AutoRename ==
    /\ handler_pc = "rename"
    /\ \E success \in BOOLEAN :
          effects' = Append(effects, [call |-> "drive_rename", ok |-> success])
    /\ handler_pc' = "rename_status"
    /\ UNCHANGED <<file_id, status, is_valid, record_data, succeeded>>
    /\ AutoFrame

\* update_airtable_field(record_id, "Rename Status", ...) and the answer,
\* which only depends on how the rename went
AutoRenameStatus ==
    /\ handler_pc = "rename_status"
    /\ \E update_success \in BOOLEAN :
          effects' = Append(effects, [call |-> "airtable_status",
                                     ok |-> update_success])
    /\ succeeded' = effects[Len(effects)].ok
    /\ Respond(IF effects[Len(effects)].ok THEN 200 ELSE 500)
    /\ UNCHANGED <<file_id, is_valid, record_data>>
    /\ AutoFrame

AutoNext ==
    \/ AutoAuth
    \/ AutoSignature
    \/ AutoParse
    \/ AutoFetch
    \/ AutoRename
    \/ AutoRenameStatus

AutoSpec == AutoInit /\ [][AutoNext]_vars

(***************************************************************************)
(* The while loop of main() of interactive_rename.py.                      *)
(***************************************************************************)
InteractiveInit ==
    /\ EarlierIdle
    /\ TokenIdle
    /\ HandlerIdle
    /\ BatchIdle
    /\ loop_pc = "choice"
    /\ chosen_id = None
    /\ current_file = None
    /\ new_name = <<>>
    /\ confirm = <<>>
    /\ another = <<>>
    /\ assigned = {}
    /\ drive_renames = 0

\* what a step of the loop leaves alone
InteractiveFrame ==
    UNCHANGED <<cascadeVars, repairVars, concVars, tokenVars, handlerVars,
                batchVars>>

\* continue: back to while True
Continue ==
    /\ loop_pc' = "choice"
    /\ assigned' = {}

\* get_file_input(): choice = input(...).strip()
LoopChoice ==
    /\ loop_pc = "choice"
    /\ \E typed \in TypedChoices :
          IF strip(typed) = <<49>>
          THEN loop_pc' = "enter_id" /\ assigned' = assigned /\ chosen_id' = chosen_id
          ELSE IF strip(typed) = <<50>>
          THEN loop_pc' = "enter_url" /\ assigned' = assigned /\ chosen_id' = chosen_id
          ELSE chosen_id' = None /\ Continue
    /\ UNCHANGED <<current_file, new_name, confirm, another, drive_renames>>
    /\ InteractiveFrame

\* choice 1: file_id = input(...).strip(); an empty one gives None
LoopEnterId ==
    /\ loop_pc = "enter_id"
    /\ \E typed \in TypedIds :
          IF strip(typed) = <<>>
          THEN chosen_id' = None /\ Continue
          ELSE /\ chosen_id' = Some(strip(typed))
               /\ loop_pc' = "file_info"
               /\ assigned' = assigned \cup {"file_id"}
    /\ UNCHANGED <<current_file, new_name, confirm, another, drive_renames>>
    /\ InteractiveFrame

\* choice 2: url = input(...).strip(); extract_file_id_from_url(url)
LoopEnterUrl ==
    /\ loop_pc = "enter_url"
    /\ \E typed \in TypedUrls :
          IF strip(typed) = <<>>
          THEN chosen_id' = None /\ Continue
          ELSE IF Falsy(extract_file_id_from_url(strip(typed)))
          THEN chosen_id' = None /\ Continue
          ELSE /\ chosen_id' = extract_file_id_from_url(strip(typed))
               /\ loop_pc' = "file_info"
               /\ assigned' = assigned \cup {"file_id"}
    /\ UNCHANGED <<current_file, new_name, confirm, another, drive_renames>>
    /\ InteractiveFrame

\* current_file = get_file_info(drive_service, file_id)
LoopFileInfo ==
    /\ loop_pc = "file_info"
    /\ \E info \in FileInfos :
          /\ current_file' = info
          /\ IF NoFileInfo(info)
             THEN Continue
             ELSE /\ loop_pc' = "new_name"
                  /\ assigned' = assigned \cup {"current_file"}
    /\ UNCHANGED <<chosen_id, new_name, confirm, another, drive_renames>>
    /\ InteractiveFrame

\* new_name = input(...).strip()
LoopNewName ==
    /\ loop_pc = "new_name"
    /\ \E typed \in TypedNames :
          /\ new_name' = strip(typed)
          /\ IF strip(typed) = <<>>
             THEN Continue
             ELSE /\ loop_pc' = "confirm"
                  /\ assigned' = assigned \cup {"new_name"}
    /\ UNCHANGED <<chosen_id, current_file, confirm, another, drive_renames>>
    /\ InteractiveFrame

\* confirm = input(...).strip().lower()
LoopConfirm ==
    /\ loop_pc = "confirm"
    /\ \E typed \in TypedAnswers :
          /\ confirm' = Lower(strip(typed))
          /\ IF ~Affirmative(Lower(strip(typed)))
             THEN Continue
             ELSE /\ loop_pc' = "rename"
                  /\ assigned' = assigned \cup {"confirm"}
    /\ UNCHANGED <<chosen_id, current_file, new_name, another, drive_renames>>
    /\ InteractiveFrame

\* success, message = rename_file(drive_service, file_id, new_name):
\* the answer of Drive only changes what is printed
LoopRename ==
    /\ loop_pc = "rename"
    /\ drive_renames < MaxRenames
    /\ drive_renames' = drive_renames + 1
    /\ assigned' = assigned \cup {"success"}
    /\ loop_pc' = "another"
    /\ UNCHANGED <<chosen_id, current_file, new_name, confirm, another>>
    /\ InteractiveFrame

\* another = input(...).strip().lower(); break unless 'y' or 'yes'
LoopAnother ==
    /\ loop_pc = "another"
    /\ \E typed \in TypedAnswers :
          /\ another' = Lower(strip(typed))
          /\ IF ~Affirmative(Lower(strip(typed)))
             THEN loop_pc' = "exit" /\ assigned' = assigned
             ELSE Continue
    /\ UNCHANGED <<chosen_id, current_file, new_name, confirm, drive_renames>>
    /\ InteractiveFrame

InteractiveNext ==
    \/ LoopChoice
    \/ LoopEnterId
    \/ LoopEnterUrl
    \/ LoopFileInfo
    \/ LoopNewName
    \/ LoopConfirm
    \/ LoopRename
    \/ LoopAnother

InteractiveSpec == InteractiveInit /\ [][InteractiveNext]_vars

(***************************************************************************)
(* process_csv_file and process_json_file of batch_rename_drive_files.py.  *)
(***************************************************************************)
BatchInit ==
    /\ EarlierIdle
    /\ TokenIdle
    /\ HandlerIdle
    /\ InteractiveIdle
    /\ batch_pc = "open"
    /\ format \in {"csv", "json"}
    /\ batch_file \in {"missing", "list"} \cup
                      (IF format = "json" THEN {"not_list"} ELSE {})
    /\ entries \in (IF batch_file = "list" THEN EntryLists(format)
                    ELSE {<<>>})
    /\ total_count = 0
    /\ success_count = 0
    /\ drive_calls = <<>>
    /\ batch_returned = None

\* what a step of the batch leaves alone
BatchFrame ==
    UNCHANGED <<format, batch_file, entries, cascadeVars, repairVars,
                concVars, tokenVars, handlerVars, interactiveVars>>

\* return value
Return(value) ==
    /\ batch_returned' = Some(value)
    /\ batch_pc' = "done"

\* os.path.exists, open, and for JSON json.load and isinstance(data, list)
BatchOpen ==
    /\ batch_pc = "open"
    /\ IF batch_file = "list"
       THEN batch_pc' = "row" /\ batch_returned' = batch_returned
       ELSE Return(FALSE)
    /\ UNCHANGED <<total_count, success_count, drive_calls>>
    /\ BatchFrame

\* one pass of the for loop up to the call of process_single_file
BatchRow ==
    /\ batch_pc = "row"
    /\ total_count < Len(entries)
    /\ total_count' = total_count + 1
    /\ LET item == entries[total_count + 1]
       IN  IF ~item.dict
           THEN batch_pc' = "row" /\ batch_returned' = batch_returned
           ELSE IF StripRaises(item.file_id)
           THEN Return(FALSE)
           ELSE IF StripRaises(item.new_name)
           THEN Return(FALSE)
           ELSE IF Stripped(item.file_id) = <<>>
           THEN batch_pc' = "row" /\ batch_returned' = batch_returned
           ELSE IF Stripped(item.new_name) = <<>>
           THEN batch_pc' = "row" /\ batch_returned' = batch_returned
           ELSE batch_pc' = "get_file_info" /\ batch_returned' = batch_returned
    /\ UNCHANGED <<success_count, drive_calls>>
    /\ BatchFrame

\* rename_file: current_file = get_file_info(drive_service, file_id)
BatchGetFileInfo ==
    /\ batch_pc = "get_file_info"
    /\ \E ok \in BOOLEAN :
          /\ drive_calls' = Append(drive_calls,
                 [entry |-> total_count, call |-> "get", ok |-> ok])
          /\ batch_pc' = IF ok THEN "update" ELSE "row"
    /\ UNCHANGED <<total_count, success_count, batch_returned>>
    /\ BatchFrame

\* rename_file: drive_service.files().update(...).execute(), and
\* success_count += 1 when process_single_file returns True
BatchUpdate ==
    /\ batch_pc = "update"
    /\ \E ok \in BOOLEAN :
          /\ drive_calls' = Append(drive_calls,
                 [entry |-> total_count, call |-> "update", ok |-> ok])
          /\ success_count' = IF ok THEN success_count + 1 ELSE success_count
    /\ batch_pc' = "row"
    /\ UNCHANGED <<total_count, batch_returned>>
    /\ BatchFrame

\* the list is exhausted: return success_count > 0
BatchReport ==
    /\ batch_pc = "row"
    /\ total_count = Len(entries)
    /\ Return(success_count > 0)
    /\ UNCHANGED <<total_count, success_count, drive_calls>>
    /\ BatchFrame

BatchNext ==
    \/ BatchOpen
    \/ BatchRow
    \/ BatchGetFileInfo
    \/ BatchUpdate
    \/ BatchReport

BatchSpec == BatchInit /\ [][BatchNext]_vars

(***************************************************************************)
(* Several calls of process_with_vision_api in one process (Flask serves   *)
(* each request on its own thread), interleaved at their strategy calls    *)
(* and inside get_vision_client.                                           *)
(***************************************************************************)
\* a credentials path of its own for every call
CredentialsPathPerRequest(r) == r

\* GOOGLE_CREDENTIALS_PATH as a call finds it: one path for the process
CredentialsPath(r) == "google_credentials.json"

\* one module-level result that every call returns through
ResultSlotShared(r) == "r1"

\* return extracted_text, None / return None, f"...": to the call's caller
ResultSlot(r) == r

\* text after the loop over pdf_reader.pages[1..k]
RECURSIVE ReadPages(_, _)
ReadPages(ps, k) ==
    IF k = 0 THEN <<>> ELSE AppendPage(ReadPages(ps, k - 1), ps[k])

\* get_vision_client() comes before the first Vision call
ConcStage(p) == IF p = "doc_ocr" THEN "set_env" ELSE p

ConcInit ==
    /\ pc = "idle"
    /\ file_name = <<>>
    /\ file_content = "bytes1"
    /\ text = <<>>
    /\ page_text = <<>>
    /\ page_num = 0
    /\ pages = <<>>
    /\ result = NoResult
    /\ calls = <<>>
    /\ raw = None
    /\ items = <<>>
    /\ dropped = FALSE
    /\ repair_pc = "idle"
    /\ repair_in = <<>>
    /\ repair_out = <<>>
    /\ requests \in [Requests ->
           {[pc |-> "start", file_name |-> n, file_content |-> c,
             responses |-> p, calls |-> <<>>, client |-> "",
             read_from |-> "none"] :
                n \in ConcNames, c \in FileContents, p \in Responses}]
    /\ environ = [value |-> "", writer |-> "none"]
    /\ returned = [r \in Requests |-> NoResult]
    /\ LaterIdle

\* the strategy of call r is over: after says where r goes and with what
ConcStep(r, strategy, after, outcome) ==
    /\ requests' = [requests EXCEPT
           ![r].pc = ConcStage(after.pc),
           ![r].calls = Append(@, [strategy |-> strategy,
                                   outcome |-> outcome,
                                   content |-> requests[r].file_content])]
    /\ returned' = IF after.pc = "done"
                   THEN [returned EXCEPT ![ResultSlot(r)] = after.result]
                   ELSE returned
    /\ UNCHANGED <<environ, cascadeVars, repairVars, laterVars>>

\* if file_name.lower().endswith('.pdf'):
ConcEnter(r) ==
    /\ requests[r].pc = "start"
    /\ requests' = [requests EXCEPT ![r].pc =
           ConcStage(IF IsPdf(requests[r].file_name)
                     THEN "pdf_open" ELSE "doc_ocr")]
    /\ UNCHANGED <<environ, returned, cascadeVars, repairVars, laterVars>>

\* pdf_text = extract_text_from_pdf(file_content)
ConcNativeText(r) ==
    /\ requests[r].pc = "pdf_open"
    /\ LET answer == requests[r].responses.pages
           pdf_text == extract_text_from_pdf(
                           ReadPages(answer.value, Len(answer.value)))
       IN  IF answer.raises
           THEN ConcStep(r, "NativeText", PdfExceptionHandler, "raised")
           ELSE ConcStep(r, "NativeText", AfterNative(pdf_text),
                         Outcome(pdf_text))

\* os.environ['GOOGLE_APPLICATION_CREDENTIALS'] = GOOGLE_CREDENTIALS_PATH
ConcSetEnviron(r) ==
    /\ requests[r].pc = "set_env"
    /\ environ' = [value |-> CredentialsPath(r), writer |-> r]
    /\ requests' = [requests EXCEPT ![r].pc = "client"]
    /\ UNCHANGED <<returned, cascadeVars, repairVars, laterVars>>

\* return vision.ImageAnnotatorClient(): the client takes its credentials
\* from the path the environment holds when it is built
ConcClient(r) ==
    /\ requests[r].pc = "client"
    /\ requests' = [requests EXCEPT ![r].pc = "doc_ocr",
                                    ![r].client = environ.value,
                                    ![r].read_from = environ.writer]
    /\ UNCHANGED <<environ, returned, cascadeVars, repairVars, laterVars>>

\* the Vision method called by r answered with answer
ConcVisual(r, strategy, answer, found, next) ==
    IF answer.raises
    THEN ConcStep(r, strategy, ExceptionHandler(strategy), "raised")
    ELSE ConcStep(r, strategy, AfterVisual(found, next), Outcome(found))

ConcDocumentOCR(r) ==
    /\ requests[r].pc = "doc_ocr"
    /\ LET answer == requests[r].responses.doc
       IN  ConcVisual(r, "DocumentOCR", answer,
                      DocumentText(answer.value), "text_ocr")

ConcGenericOCR(r) ==
    /\ requests[r].pc = "text_ocr"
    /\ LET answer == requests[r].responses.ocr
       IN  ConcVisual(r, "GenericOCR", answer,
                      OcrText(answer.value), "objects")

ConcObjectDetection(r) ==
    /\ requests[r].pc = "objects"
    /\ LET answer == requests[r].responses.objects
       IN  ConcVisual(r, "ObjectDetection", answer,
                      ObjectsSummary(answer.value), "labels")

\* with no label the text is the "no content" sentence
ConcLabelDetection(r) ==
    /\ requests[r].pc = "labels"
    /\ LET answer == requests[r].responses.labels
           found  == LabelsSummary(answer.value)
       IN  ConcVisual(r, "LabelDetection", answer,
                      IF found # None THEN found
                      ELSE Some(NoContent(requests[r].file_name)), "done")

ConcNext ==
    \E r \in Requests :
        \/ ConcEnter(r)
        \/ ConcNativeText(r)
        \/ ConcSetEnviron(r)
        \/ ConcClient(r)
        \/ ConcDocumentOCR(r)
        \/ ConcGenericOCR(r)
        \/ ConcObjectDetection(r)
        \/ ConcLabelDetection(r)

ConcSpec == ConcInit /\ [][ConcNext]_vars

(***************************************************************************)
(* Properties of the cascade.                                              *)
(***************************************************************************)
Done == pc = "done"

LastCall == calls[Len(calls)]

Invoked(strategy) == \E i \in DOMAIN calls : calls[i].strategy = strategy

VisualInvoked == \E i \in DOMAIN calls : calls[i].strategy \in VisualStrategies

\* place of a strategy in the cascade
Rank(strategy) ==
    CASE strategy = "NativeText" -> 1
      [] strategy = "DocumentOCR" -> 2
      [] strategy = "GenericOCR" -> 3
      [] strategy = "ObjectDetection" -> 4
      [] strategy = "LabelDetection" -> 5

\* the native strategy gave a text
NativeSucceeded ==
    /\ calls # <<>>
    /\ calls[1].strategy = "NativeText"
    /\ calls[1].outcome = "text"

\* C1 (stage skip): a request for a document (.pdf name) whose native text
\* layer is non-blank returns that text, stripped and changed only by the
\* Hebrew direction repair, with no error, and invokes no visual strategy:
\* the step that ends the page loop without a parse failure on a non-blank
\* text returns at once, and a request whose native strategy gave a text
\* is over and has no visual strategy in its history.
C1_StageSkip ==
    /\ [][(/\ pc = "pdf_page"
           /\ pc' # "pdf_page"
           /\ strip(text) # <<>>
           /\ calls'[Len(calls')].outcome # "raised")
              => /\ IsPdf(file_name)
                 /\ pc' = "done"
                 /\ result' =
                       [text |-> Some(fix_hebrew_text_direction(strip(text))),
                        error |-> None]
                 /\ calls' = <<Call("NativeText", "text")>>]_vars
    /\ [](NativeSucceeded =>
             /\ Done
             /\ result.text # None
             /\ result.error = None
             /\ ~VisualInvoked)

\* a document whose text layer has several lines, one of them mirrored,
\* was returned repaired, straight from the native strategy
C1_Witness ==
    /\ Done
    /\ NativeSucceeded
    /\ \E i \in DOMAIN raw[1] : raw[1][i] = 10
    /\ result.text # raw
    /\ Len(calls) = 1

C3_RepairAfterTextStrategy ==
    (Done /\ raw # None) =>
        result.text = Some(fix_hebrew_text_direction(raw[1]))

\* C4: when every strategy that ran found nothing and none failed, the
\* text is "No text or recognizable content found in <file name>" and no
\* error is set.
C4_ExhaustedSentinel ==
    (Done /\ \A i \in DOMAIN calls : calls[i].outcome = "empty") =>
        /\ result.text = Some(NoContentPrefix \o file_name)
        /\ result.error = None

\* a document with a blank text layer went through all five strategies
C4_Witness ==
    /\ Done
    /\ Len(calls) = 5
    /\ \A i \in DOMAIN calls : calls[i].outcome = "empty"

\* C5: a failure of LabelDetection, the final strategy, gives an error and
\* no text, never the "no content" sentence.
C5_FinalFailureSurfaced ==
    (Done /\ LastCall.strategy = "LabelDetection"
          /\ LastCall.outcome = "raised") =>
        /\ result.text = None
        /\ result.error # None
        /\ result # Returned(NoContentPrefix \o file_name)

\* label detection raised after the three strategies before it found nothing
C5_Witness ==
    /\ Done
    /\ Len(calls) >= 4
    /\ LastCall.strategy = "LabelDetection"
    /\ LastCall.outcome = "raised"
    /\ \A i \in 1..(Len(calls) - 1) : calls[i].outcome = "empty"

\* C6: the strategies are invoked in cascade order, starting from the
\* first applicable one (NativeText for a .pdf name, DocumentOCR
\* otherwise), none skipped or repeated, each only after the one before it
\* produced no text; after a success nothing more is invoked.
C6_StrictOrder ==
    /\ calls # <<>> =>
          Rank(calls[1].strategy) = IF IsPdf(file_name) THEN 1 ELSE 2
    /\ \A i \in 1..(Len(calls) - 1) :
          /\ Rank(calls[i + 1].strategy) = Rank(calls[i].strategy) + 1
          /\ calls[i].outcome # "text"
    /\ (calls # <<>> /\ LastCall.outcome = "text") => Done

\* generic OCR succeeded as the third strategy of a document
C6_Witness ==
    /\ Done
    /\ Len(calls) = 3
    /\ calls[1].strategy = "NativeText"
    /\ LastCall.strategy = "GenericOCR"
    /\ LastCall.outcome = "text"

\* C7: process_with_vision_api is total: whatever the providers return or
\* raise, it eventually returns a (text, error) pair, one of them set.
C7_Total ==
    <>(Done /\ (result.text # None \/ result.error # None))

\* the document parser raised and a visual strategy raised later: the
\* call still returned
C7_Witness ==
    /\ Done
    /\ Len(calls) >= 3
    /\ calls[1].outcome = "raised"
    /\ LastCall.outcome = "raised"
    /\ result # NoResult

\* C8: a returned text is never empty or whitespace-only; a strategy whose
\* output is blank is followed by the next strategy.
C8_TextNeverBlank ==
    /\ result.text # None => strip(result.text[1]) # <<>>
    /\ \A i \in DOMAIN calls :
          (calls[i].outcome = "empty" /\ calls[i].strategy # "LabelDetection")
              => IF i = Len(calls)
                 THEN /\ result = NoResult
                      /\ pc = (CASE calls[i].strategy = "NativeText" -> "doc_ocr"
                                 [] OTHER -> StageAfter(calls[i].strategy))
                 ELSE Rank(calls[i + 1].strategy) = Rank(calls[i].strategy) + 1

\* the text layer of a document and its document OCR were blank, and
\* generic OCR gave a text, returned stripped
C8_Witness ==
    /\ Done
    /\ Len(calls) = 3
    /\ calls[1].outcome = "empty"
    /\ calls[2].outcome = "empty"
    /\ result.text = raw
    /\ raw # None

\* C9: at most one of text and error is set in a result: an error comes
\* with no text, a text (the "no content" sentence too) with no error.
C9_TextXorError ==
    /\ ~(result.text # None /\ result.error # None)
    /\ Done => (result.text # None \/ result.error # None)

\* both kinds of result are returned
C9_Witness ==
    /\ Done
    /\ result.error # None
    /\ result.text = None
    /\ Len(calls) = 5

\* C10: a failure of the document parser is not propagated: the native
\* strategy counts as absent, no result is set, and DocumentOCR is invoked
\* next on the same bytes.
C10_ParseFailureFallsThrough ==
    \A i \in DOMAIN calls :
        (calls[i].strategy = "NativeText" /\ calls[i].outcome = "raised") =>
            /\ i = 1
            /\ Len(calls) = 1 => (pc = "doc_ocr" /\ result = NoResult)
            /\ Len(calls) > 1 =>
                  /\ calls[2].strategy = "DocumentOCR"
                  /\ calls[2].content = file_content

\* the parser raised, and document OCR ran and gave the text
C10_Witness ==
    /\ Done
    /\ calls[1].strategy = "NativeText"
    /\ calls[1].outcome = "raised"
    /\ Len(calls) = 2
    /\ calls[2].strategy = "DocumentOCR"
    /\ calls[2].outcome = "text"

(***************************************************************************)
(* Properties of extract_text_from_pdf.                                    *)
(***************************************************************************)
\* every non-blank page of ps from the k-th on, each followed by "\n"
RECURSIVE NonBlankPagesFrom(_, _)
NonBlankPagesFrom(ps, k) ==
    IF k > Len(ps) THEN <<>>
    ELSE (IF strip(ps[k]) # <<>> THEN ps[k] \o <<10>> ELSE <<>>)
             \o NonBlankPagesFrom(ps, k + 1)

\* the step on which extract_text_from_pdf returns without a parse failure
NativeReturns ==
    /\ pc = "pdf_page"
    /\ pc' # "pdf_page"
    /\ calls'[Len(calls')].outcome # "raised"

RepairReturned == repair_pc = "returned"

\* the line holds one of the reference substrings
HoldsReference(line) == \E p \in MirroredPatterns : Contains(p, line)

\* C12: a text without any code point in U+0590..U+05FF is returned
\* unchanged.
C12_NoHebrewIdentity ==
    (RepairReturned /\ \A i \in DOMAIN repair_in : repair_in[i] \notin 1424..1535)
        => repair_out = repair_in

\* "Invoice #100" comes back as it went in
C12_Witness ==
    /\ RepairReturned
    /\ repair_in = <<73, 110, 118, 111, 105, 99, 101, 32, 35, 49, 48, 48>>
    /\ repair_out = repair_in

\* C13: the repair works line by line: the output has as many lines as the
\* input, in the same order, joined by "\n"; a line is its input line
\* reversed character by character exactly when the input line holds one
\* of the reference substrings, and is the input line otherwise.
C13_LineByLine ==
    RepairReturned =>
        LET ins  == split(repair_in)
            outs == split(repair_out)
        IN  /\ Len(outs) = Len(ins)
            /\ repair_out = join(<<10>>, outs)
            /\ \A i \in DOMAIN ins :
                   outs[i] = IF HoldsReference(ins[i])
                             THEN Reverse(ins[i])
                             ELSE ins[i]

\* "a", then "<1st reference substring> a": the first line is kept, the
\* second comes back as "a " and the mirrored substring
C13_Witness ==
    /\ RepairReturned
    /\ repair_in = <<97, 10, 1498, 1502, 1505, 32, 97>>
    /\ repair_out = <<97, 10, 97, 32, 1505, 1502, 1498>>

FirstFive == SubSeq(items, 1, IF Len(items) < 5 THEN Len(items) ELSE 5)

\* the call ended with ObjectDetection or LabelDetection returning
SummaryReturned ==
    /\ Done
    /\ calls # <<>>
    /\ LastCall.strategy \in {"ObjectDetection", "LabelDetection"}
    /\ LastCall.outcome # "raised"

\* the string put together from what the provider listed and the file name
Synthesized ==
    IF items # <<>>
    THEN (IF LastCall.strategy = "ObjectDetection"
          THEN ObjectsPrefix ELSE LabelsPrefix)
             \o join(CommaSpace, FirstFive)
    ELSE NoContentPrefix \o file_name

\* C15: when ObjectDetection or LabelDetection succeeds, or every strategy
\* came back empty, the returned text is the synthesized string itself:
\* the names, descriptions and the file name stand in it as they were
\* given, also when one of them holds a reference substring.
C15_SummariesNotRepaired ==
    SummaryReturned => result = [text |-> Some(Synthesized), error |-> None]

\* "Objects detected: <1st reference substring>, cat": the repair would
\* have reversed it
C15_Witness ==
    /\ SummaryReturned
    /\ LastCall.strategy = "ObjectDetection"
    /\ items = <<<<1498, 1502, 1505>>, <<99, 97, 116>>>>
    /\ result.text = Some(ObjectsPrefix
                              \o <<1498, 1502, 1505, 44, 32, 99, 97, 116>>)
    /\ fix_hebrew_text_direction(result.text[1]) # result.text[1]

\* the step on which the strategy called at stage returns
StageReturns(stage) ==
    /\ pc = stage
    /\ calls'[Len(calls')].outcome # "raised"

\* C16: when ObjectDetection lists n >= 1 objects the call ends there with
\* "Objects detected: " and the first min(n, 5) names in provider order
\* joined by ", "; when it lists none LabelDetection is called, and when
\* that lists m >= 1 labels the text is "Image contains: " and the first
\* min(m, 5) descriptions in provider order joined by ", ".
C16_TopFive ==
    [][/\ StageReturns("objects") =>
             IF items' # <<>>
             THEN /\ pc' = "done"
                  /\ result'.text = Some(ObjectsPrefix
                                            \o join(CommaSpace, FirstFive'))
                  /\ \A k \in DOMAIN calls' :
                         calls'[k].strategy # "LabelDetection"
             ELSE pc' = "labels"
       /\ (StageReturns("labels") /\ items' # <<>>) =>
             /\ pc' = "done"
             /\ result'.text = Some(LabelsPrefix
                                       \o join(CommaSpace, FirstFive'))]_vars

\* six objects listed, five named
C16_Witness ==
    /\ Done
    /\ LastCall = Call("ObjectDetection", "text")
    /\ items = <<<<99, 97, 116>>, <<1498, 1502, 1505>>, <<99, 97, 116>>,
                 <<99, 97, 116>>, <<99, 97, 116>>, <<1498, 1502, 1505>>>>
    /\ result.text = Some(ObjectsPrefix \o
           <<99, 97, 116, 44, 32, 1498, 1502, 1505, 44, 32, 99, 97, 116,
             44, 32, 99, 97, 116, 44, 32, 99, 97, 116>>)

(***************************************************************************)
(* Properties of the choice and the number of calls.                       *)
(***************************************************************************)
\* C17: during one call of process_with_vision_api no strategy is invoked
\* twice, whether it returned text, returned nothing or raised.
C17_NoRetry ==
    \A i, j \in DOMAIN calls :
        calls[i].strategy = calls[j].strategy => i = j

\* all five strategies invoked, the first and the last of them raising
C17_Witness ==
    /\ Done
    /\ Len(calls) = 5
    /\ calls[1] = Call("NativeText", "raised")
    /\ LastCall = Call("LabelDetection", "raised")

\* the last four code points of the file name are '.', then p, d, f in
\* either case
NamedPdf ==
    /\ Len(file_name) >= 4
    /\ file_name[Len(file_name) - 3] = 46
    /\ file_name[Len(file_name) - 2] \in {112, 80}
    /\ file_name[Len(file_name) - 1] \in {100, 68}
    /\ file_name[Len(file_name)] \in {102, 70}

\* C18: extract_text_from_pdf is invoked exactly for the file names that
\* end with ".pdf" in any letter case, and then first; for every other
\* name the first strategy invoked is DocumentOCR.
C18_NativeOnlyForPdf ==
    /\ \A i \in DOMAIN calls :
           calls[i].strategy = "NativeText" => (NamedPdf /\ i = 1)
    /\ calls # <<>> =>
           calls[1].strategy = IF NamedPdf THEN "NativeText" ELSE "DocumentOCR"
    /\ pc \in {"pdf_open", "pdf_page"} => NamedPdf

\* "B.PDF" is read as a document; "pdf" would not be
C18_Witness ==
    /\ Done
    /\ file_name = <<66, 46, 80, 68, 70>>
    /\ calls[1].strategy = "NativeText"

(***************************************************************************)
(* Properties of calls running side by side.                               *)
(***************************************************************************)
Finished(r) == requests[r].pc = "done"

\* the strategies r invoked, in order
Strategies(r) ==
    [i \in DOMAIN requests[r].calls |-> requests[r].calls[i].strategy]

AloneResult(q) ==
    LET a == q.responses
        pdf_text == extract_text_from_pdf(
                        ReadPages(a.pages.value, Len(a.pages.value)))
        failed(strategy) ==
            [text |-> None, error |-> Some(<<"Vision API error", strategy>>)]
        found(t) == [text |-> t, error |-> None]
    IN  IF IsPdf(q.file_name) /\ ~a.pages.raises /\ pdf_text # None
        THEN found(pdf_text)
        ELSE IF a.doc.raises THEN failed("DocumentOCR")
        ELSE IF DocumentText(a.doc.value) # None
             THEN found(DocumentText(a.doc.value))
        ELSE IF a.ocr.raises THEN failed("GenericOCR")
        ELSE IF OcrText(a.ocr.value) # None THEN found(OcrText(a.ocr.value))
        ELSE IF a.objects.raises THEN failed("ObjectDetection")
        ELSE IF a.objects.value # <<>>
             THEN found(ObjectsSummary(a.objects.value))
        ELSE IF a.labels.raises THEN failed("LabelDetection")
        ELSE IF a.labels.value # <<>>
             THEN found(LabelsSummary(a.labels.value))
        ELSE found(Some(NoContentPrefix \o q.file_name))

\* each call works on its own bytes and returns what it returns alone
OwnResult ==
    \A r \in Requests :
        /\ \A i \in DOMAIN requests[r].calls :
               requests[r].calls[i].content = requests[r].file_content
        /\ Finished(r) => returned[r] = AloneResult(requests[r])
        /\ ~Finished(r) => returned[r] = [text |-> None, error |-> None]

\* C20 as stated: calls running side by side return what they return
\* alone, and no call reads state that another call wrote.
C20_NoSharedState ==
    /\ OwnResult
    /\ \A r \in Requests : requests[r].read_from \in {"none", r}

\* C20: calls running side by side, interleaved in any way, each return
\* what they return alone on their own bytes, file name and answers. They
\* share one piece of process-wide state, the environment variable
\* GOOGLE_APPLICATION_CREDENTIALS: every call that reaches the Vision API
\* writes it and then reads it, possibly as written by another call, but
\* what it holds once written is always the one configured path.
C20_OwnResultSharedEnviron ==
    /\ OwnResult
    /\ environ.value \in {"", "google_credentials.json"}
    /\ \A r \in Requests :
           requests[r].read_from # "none" =>
               requests[r].client = "google_credentials.json"

\* r1 built its client from the environment as r2 had written it; the two
\* calls, on different bytes, end the one with a text, the other with an
\* error
C20_Witness ==
    /\ Finished("r1") /\ Finished("r2")
    /\ requests["r1"].read_from = "r2"
    /\ requests["r1"].file_content # requests["r2"].file_content
    /\ returned["r1"].text # None
    /\ returned["r2"].error # None

(***************************************************************************)
(* Properties of what the result tells about the strategies.               *)
(***************************************************************************)
\* the call returned a text
TextReturned == Done /\ result.text # None

\* C21 as stated: every result with a text has a strategy_used component,
\* naming the strategy that produced the text, none when the cascade was
\* exhausted.
C21_StrategyReported ==
    TextReturned =>
        /\ "strategy_used" \in DOMAIN result
        /\ result.strategy_used = IF LastCall.outcome = "text"
                                  THEN LastCall.strategy ELSE "none"

\* C21: a result with a text is the pair (text, no error) and nothing
\* more; the text is the one of the first strategy in cascade order whose
\* success test passed (the repaired native text, the trimmed OCR text, a
\* summary), every strategy before it having produced none, and the "no
\* content" sentence when LabelDetection, the last one, listed nothing.
C21_TextOfFirstSuccess ==
    TextReturned =>
        /\ DOMAIN result = {"text", "error"}
        /\ result.error = None
        /\ \A i \in 1..(Len(calls) - 1) : calls[i].outcome # "text"
        /\ LastCall.outcome # "raised"
        /\ LastCall.strategy = "NativeText" =>
               result.text = Some(fix_hebrew_text_direction(raw[1]))
        /\ LastCall.strategy \in {"DocumentOCR", "GenericOCR"} =>
               result.text = raw
        /\ LastCall.outcome = "empty" =>
               /\ LastCall.strategy = "LabelDetection"
               /\ result.text = Some(NoContentPrefix \o file_name)

\* Scenario B: "a.pdf" with a blank text layer, the full-text annotation a
\* Hebrew greeting: DocumentOCR is the first strategy to pass, and the
\* result holds the greeting and no error
C21_Witness ==
    /\ TextReturned
    /\ file_name = <<97, 46, 112, 100, 102>>
    /\ calls = <<Call("NativeText", "empty"), Call("DocumentOCR", "text")>>
    /\ result = [text |-> Some(<<1513, 1500, 1493, 1501, 32,
                                 1506, 1493, 1500, 1501>>),
                 error |-> None]

\* C22: whenever the returned text is "No text or recognizable content
\* found in <file name>", the four Vision methods were all called in that
\* call, in cascade order, and each returned nothing without raising.
C22_SentinelOnlyWhenExhausted ==
    (Done /\ result.text = Some(NoContentPrefix \o file_name)) =>
        /\ Len(calls) >= 4
        /\ LET n == Len(calls)
           IN  /\ calls[n - 3] = Call("DocumentOCR", "empty")
               /\ calls[n - 2] = Call("GenericOCR", "empty")
               /\ calls[n - 1] = Call("ObjectDetection", "empty")
               /\ calls[n] = Call("LabelDetection", "empty")

(***************************************************************************)
(* Properties of a parser failure.                                         *)
(***************************************************************************)
\* the step on which extract_text_from_pdf ends in its except clause
NativeRaises ==
    /\ pc \in {"pdf_open", "pdf_page"}
    /\ calls' = Append(calls, Call("NativeText", "raised"))

\* C23: when the parser raises on any page (or anything after the loop
\* does), extract_text_from_pdf returns None: the text collected from the
\* pages before is dropped, no result is set and DocumentOCR is next; a
\* call whose parser raised never returns a text of the native strategy.
C23_AllOrNothing ==
    /\ [][NativeRaises =>
             /\ pc' = "doc_ocr"
             /\ result' = NoResult
             /\ raw' = None
             /\ text' = <<>>
             /\ pages' = <<>>]_vars
    /\ [](dropped =>
             /\ calls[1] = Call("NativeText", "raised")
             /\ Done /\ result.text # None => LastCall.strategy # "NativeText")

\* the parser raised with page text collected, the call went on and
\* generic OCR gave the text
C23_Witness ==
    /\ Done
    /\ dropped
    /\ calls = <<Call("NativeText", "raised"), Call("DocumentOCR", "empty"),
                 Call("GenericOCR", "text")>>
    /\ result.text # None

(***************************************************************************)
(* Properties of validate_bearer_token.                                    *)
(***************************************************************************)
\* the header reads "<scheme> <token>", the scheme "bearer" in any letter
\* case, the token the configured one
CarriesToken(header, configured) ==
    /\ header # None
    /\ \E k \in DOMAIN header[1] :
           /\ header[1][k] = 32
           /\ \A j \in 1..(k - 1) : header[1][j] # 32
           /\ k = 7
           /\ \A j \in 1..6 :
                  header[1][j] \in {BearerScheme[j], BearerScheme[j] - 32}
           /\ SubSeq(header[1], k + 1, Len(header[1])) = configured[1]

\* C26: with no token configured validate_bearer_token accepts every
\* header; with one configured it accepts exactly the headers
\* "<scheme> <token>" whose scheme is "bearer" in any letter case and whose
\* token is the configured one, and rejects every other or missing header.
C26_AcceptsExactlyTheToken ==
    token_pc = "returned" =>
        (is_valid <=>
            \/ FLASK_SERVER_TOKEN \in {None, Some(<<>>)}
            \/ CarriesToken(auth_header, FLASK_SERVER_TOKEN))

(***************************************************************************)
(* Properties of the request handlers of app.py.                           *)
(***************************************************************************)
Answered == handler_pc = "done"

\* the external calls made so far, by name
EffectNames == [i \in DOMAIN effects |-> effects[i].call]

\* C24: in /download-and-analyze-vision the "Text" field is written at
\* most once, as the third external call after a download and an
\* extraction that both succeeded; the calls come in the order download,
\* extract, update; when the download or the extraction failed the answer
\* is 500 and nothing was written.
C24_TextWrittenAfterSuccess ==
    endpoint = "vision" =>
        LET writes == {i \in DOMAIN effects : effects[i].call = "airtable_text"}
        IN  /\ Cardinality(writes) <= 1
            /\ \A i \in DOMAIN effects :
                   EffectNames[i] =
                       <<"drive_download", "extract", "airtable_text">>[i]
            /\ \A i \in writes : effects[1].ok /\ effects[2].ok
            /\ (Answered /\ \E i \in DOMAIN effects :
                                /\ effects[i].call # "airtable_text"
                                /\ ~effects[i].ok)
                   => (status = 500 /\ writes = {})

\* download, extraction, one write, answer 200
C24_Witness ==
    /\ Answered
    /\ endpoint = "vision"
    /\ effects = <<[call |-> "drive_download", ok |-> TRUE],
                   [call |-> "extract", ok |-> TRUE],
                   [call |-> "airtable_text", ok |-> TRUE]>>
    /\ status = 200

\* the request does not carry the configured token
TokenLacking ==
    /\ FLASK_SERVER_TOKEN # None
    /\ FLASK_SERVER_TOKEN[1] # <<>>
    /\ ~CarriesToken(auth_header, FLASK_SERVER_TOKEN)

\* C25: with a token configured, a request whose Authorization header is
\* missing or does not carry it makes no external call in any handler and
\* is answered 401.
C25_NoCallWithoutToken ==
    TokenLacking =>
        /\ effects = <<>>
        /\ Answered => status = 401

\* neither file_id nor drive_url gives a file id
NoFileId ==
    IF data = None THEN TRUE
    ELSE /\ Falsy(data[1].file_id)
         /\ IF Falsy(data[1].drive_url) THEN TRUE
            ELSE IF ~UrlHasD(data[1].drive_url[1]) THEN TRUE
            ELSE UrlFileId(data[1].drive_url[1]) = <<>>

\* the handler went on with a file id
FileIdSettled ==
    /\ endpoint \in {"vision", "analyze"}
    /\ handler_pc \in {"download", "extract", "update", "upload"}
           \/ (Answered /\ effects # <<>>)

\* the file id taken is the supplied one, and the one in drive_url only
\* when none was supplied
SuppliedFirst ==
    FileIdSettled =>
        file_id = IF ~Falsy(data[1].file_id) THEN data[1].file_id
                  ELSE Some(UrlFileId(data[1].drive_url[1]))

Renames == {i \in DOMAIN effects : effects[i].call = "drive_rename"}
StatusWrites == {i \in DOMAIN effects : effects[i].call = "airtable_status"}

\* C27: in /auto-rename-file the Drive rename is attempted only when the
\* record was fetched and holds a file id and a non-empty suggested name
\* different from the original name; without an attempt there is no Drive
\* call and no Airtable write; after an attempt "Rename Status" is
\* written exactly once, and the answer follows the rename alone: success
\* also when that write failed, 500 when the rename failed.
C27_RenameGuardedStatusOnce ==
    endpoint = "auto_rename" =>
        /\ Renames # {} =>
               /\ record_data # None
               /\ record_data[1].file_id \notin {None, Some(<<>>)}
               /\ record_data[1].suggested_name \notin {None, Some(<<>>)}
               /\ record_data[1].suggested_name # record_data[1].original_name
        /\ Renames = {} =>
               \A i \in DOMAIN effects : effects[i].call = "airtable_get"
        /\ Cardinality(Renames) <= 1
        /\ \A i \in StatusWrites : i - 1 \in Renames
        /\ (Answered /\ Renames # {}) =>
               /\ Cardinality(StatusWrites) = 1
               /\ \A i \in Renames :
                      /\ succeeded = effects[i].ok
                      /\ status = IF effects[i].ok THEN 200 ELSE 500

\* the rename went through, the status write did not, the answer is a
\* success
C27_Witness ==
    /\ endpoint = "auto_rename"
    /\ Answered
    /\ effects = <<[call |-> "airtable_get", ok |-> TRUE],
                   [call |-> "drive_rename", ok |-> TRUE],
                   [call |-> "airtable_status", ok |-> FALSE]>>
    /\ status = 200
    /\ succeeded

(***************************************************************************)
(* Properties of the interactive rename loop.                              *)
(***************************************************************************)
\* the stage that follows each input or call of one iteration
Onward(at) ==
    CASE at = "choice" -> {"enter_id", "enter_url"}
      [] at \in {"enter_id", "enter_url"} -> {"file_info"}
      [] at = "file_info" -> {"new_name"}
      [] at = "new_name" -> {"confirm"}
      [] at = "confirm" -> {"rename"}
      [] at = "rename" -> {"another"}
      [] OTHER -> {}

Incomplete(item) ==
    \/ ~item.dict
    \/ item.file_id.kind # "str"
    \/ item.new_name.kind # "str"
    \/ strip(item.file_id.val) = <<>>
    \/ strip(item.new_name.val) = <<>>

\* the renames that went through
Renamed == {i \in DOMAIN drive_calls :
               drive_calls[i].call = "update" /\ drive_calls[i].ok}

\* C30: the batch goes through every entry of the list; an entry without
\* file_id or new_name gets no Drive call; success_count never exceeds
\* total_count; the batch returns True exactly if a rename went through.
C30_EveryEntryProcessed ==
    /\ success_count <= total_count
    /\ \A i \in DOMAIN drive_calls :
           ~Incomplete(entries[drive_calls[i].entry])
    /\ (batch_pc = "done" /\ batch_file = "list") =>
           /\ total_count = Len(entries)
           /\ batch_returned = Some(Renamed # {})

=============================================================================
